---- MODULE Spec2Model ----
(***************************************************************************)
(* Job orchestration of the SFDC deduplication agent.                      *)
(*                                                                         *)
(* The model has two kinds of execution context:                           *)
(*   - the request event loop (main.py): create_job / start_dedup_job,     *)
(*     run_agent_job and approve_decision run there as coroutines.  A      *)
(*     coroutine keeps the loop until it suspends; store operations        *)
(*     (JobManager.get_job / update_job) do not suspend.                   *)
(*   - one worker thread per job (run_in_executor) that executes           *)
(*     run_agent_workflow (agent/dedup_agent.py) and interleaves freely    *)
(*     with the event loop.                                                *)
(* Every store operation is one atomic step: the bodies guarded by         *)
(* JobManager.lock contain no suspension point and one dict operation.     *)
(* What the asyncio.Lock itself does when two event loops contend for it   *)
(* is not part of this specification.                                      *)
(***************************************************************************)
EXTENDS Integers, Sequences, FiniteSets, TLC

\* ---------------------------------------------------------------- bounds
MaxPairs == 1        \* duplicate pairs the classifier may report
MaxValUpdates == 1   \* update payloads email validation may produce

\* ------------------------------------------------------------- constants
TotalSteps == 7
UpdatesPerPair == 2  \* both contacts of a pair are marked

JobIds == {"j1"}

\* Python's None for the optional fields; a present value v is Some(v)
None == <<>>
Some(v) == <<v>>
ValueOf(opt) == opt[1]

Terminal == {"completed", "failed", "cancelled"}

VARIABLES
    jobs,    \* JobManager.jobs : dict job id -> JobRecord
    rpc,     \* position of the run_agent_job coroutine of each job
    wpc,     \* position of the run_agent_workflow thread of each job
    wl,      \* locals of run_agent_workflow
    req,     \* approve_decision coroutine holding the event loop, or NoReq
    resp,    \* last answer of approve_decision
    hist,    \* observation of the run (what happened so far, per job)
    lk,      \* JobManager.lock and the contexts that call update_job through it
    bc,      \* websocket subscribers of one job and the broadcasts under way
    pool,    \* the default executor that run_in_executor(None, ...) uses
    mut,     \* one call of traced_salesforce_update
    ls       \* the record objects of JobManager.jobs and a list handed out by list_jobs

vars == <<jobs, rpc, wpc, wl, req, resp, hist, lk, bc, pool, mut, ls>>

\* the state of the parts a specification does not exercise
aux == <<lk, bc, pool, mut, ls>>

Unused == "unused"

\* ------------------------------------------------------------ JobRecord
Progress(phase, step) ==
    [phase |-> phase, current_step |-> step, total_steps |-> TotalSteps,
     message |-> "text"]

NewJob(cfg) ==
    [status |-> "pending",
     config |-> cfg,
     progress |-> Progress("initializing", 0),
     metrics |-> [total_contacts |-> 0, total_owners |-> 0, emails_validated |-> 0,
                  duplicates_found |-> 0, sfdc_updates |-> 0],
     phase_details |-> <<>>,
     pending_approval |-> None,
     approval_decision |-> None,
     results |-> "None",
     error |-> "None"]

\* JobManager.update_job: dict.update, a shallow merge of the top-level keys
MergeUpdates(job, updates) ==
    [k \in DOMAIN job |-> IF k \in DOMAIN updates THEN updates[k] ELSE job[k]]

update_job(j, updates) ==
    jobs' = [jobs EXCEPT ![j] = MergeUpdates(jobs[j], updates)]

\* ----------------------------------------------------------------- Init
NewLocals ==
    [pairs |-> 0, val |-> 0, all_updates |-> 0, sfdc_updates |-> 0,
     errors |-> 0, polled |-> FALSE, result |-> "None"]

NewHist ==
    [cycle |-> 0, stage |-> "None", accepted |-> 0, rejectPosted |-> FALSE,
     timedOut |-> FALSE, denied |-> FALSE, reused |-> FALSE, sinkCalls |-> 0,
     collabFailed |-> FALSE, sinkRaised |-> FALSE, rejected |-> 0,
     approvePosted |-> FALSE]

\* JobManager.__init__ and no request made yet
NoJobs ==
    /\ jobs = [j \in {} |-> NewJob([auto_approve |-> FALSE])]
    /\ rpc = [j \in JobIds |-> "none"]
    /\ wpc = [j \in JobIds |-> "idle"]
    /\ wl = [j \in JobIds |-> NewLocals]
    /\ req = None
    /\ resp = [job |-> "None", code |-> 0, seq |-> 0]
    /\ hist = [j \in JobIds |-> NewHist]

Init ==
    /\ NoJobs
    /\ lk = Unused /\ bc = Unused /\ pool = Unused /\ mut = Unused /\ ls = Unused

\* The event loop is free: no coroutine is between two of its store calls
LoopIdle == req = None

\* ------------------------------------------------- request path (main.py)
\* start_dedup_job: create_job, then run_agent_job is queued as background task
start_dedup_job(j) ==
    /\ LoopIdle
    /\ j \notin DOMAIN jobs
    /\ \E auto \in BOOLEAN :
          jobs' = [k \in DOMAIN jobs \cup {j} |->
                     IF k = j THEN NewJob([auto_approve |-> auto]) ELSE jobs[k]]
    /\ rpc' = [rpc EXCEPT ![j] = "scheduled"]
    /\ UNCHANGED <<wpc, wl, req, resp, hist, aux>>

\* variants of the status test: no test at all, a test that only refuses a
\* job that has not started, a test that lets a running job through
ApproveAllowed_NoCheck(status) == TRUE

ApproveAllowed_NotPending(status) == status # "pending"

ApproveAllowed_Active(status) == status \in {"running", "awaiting_approval"}

\* approve_decision, the test of line 429
ApproveAllowed(status) == status = "awaiting_approval"

\* variant: the decision is stored but the job is not resumed
ApproveUpdates_KeepStatus(approved, rejected_pairs) ==
    [approval_decision |-> Some([approved |-> approved, rejected_pairs |-> rejected_pairs])]

\* approve_decision, the dict passed to update_job at lines 436-443
ApproveUpdates(approved, rejected_pairs) ==
    [approval_decision |-> Some([approved |-> approved, rejected_pairs |-> rejected_pairs]),
     status |-> "running"]

Answer(j, code) == resp' = [job |-> j, code |-> code, seq |-> 1 - resp.seq]

\* approve_decision up to the status test: get_job, 404, 400
ApproveCheck(j, approved) ==
    /\ LoopIdle
    /\ IF j \notin DOMAIN jobs
          THEN Answer(j, 404) /\ UNCHANGED req
          ELSE IF ~ApproveAllowed(jobs[j].status)
                  THEN Answer(j, 400) /\ UNCHANGED req
                  ELSE /\ \E rejected \in 0..MaxPairs :
                             req' = Some([job |-> j, approved |-> approved,
                                          rejected_pairs |-> rejected])
                       /\ UNCHANGED resp
    /\ UNCHANGED <<jobs, rpc, wpc, wl, hist, aux>>

\* approve_decision from update_job on: store the decision, resume, acknowledge
ApproveWrite ==
    /\ req # None
    /\ LET r == ValueOf(req)
       IN  /\ update_job(r.job, ApproveUpdates(r.approved, r.rejected_pairs))
           /\ Answer(r.job, 200)
           /\ hist' = [hist EXCEPT ![r.job].accepted = IF @ < 2 THEN @ + 1 ELSE @,
                                   ![r.job].rejectPosted = @ \/ ~r.approved,
                                   ![r.job].approvePosted = @ \/ r.approved,
                                   ![r.job].rejected =
                                       IF r.approved /\ hist[r.job].stage = "duplicate_marking"
                                          THEN r.rejected_pairs ELSE @]
    /\ req' = None
    /\ UNCHANGED <<rpc, wpc, wl, aux>>

\* ------------------------------------------------ run_agent_job (main.py)
\* lines 221-250: get_job, status running, hand the workflow to the executor
RunnerStart(j) ==
    /\ LoopIdle
    /\ rpc[j] = "scheduled"
    /\ update_job(j, [status |-> "running", progress |-> Progress("phase_1_connect", 1)])
    /\ rpc' = [rpc EXCEPT ![j] = "in_executor"]
    /\ wpc' = [wpc EXCEPT ![j] = "p1"]
    /\ UNCHANGED <<wl, req, resp, hist>>

\* variant: the results are stored but the status is left as it was
CompletedUpdates_NoStatus(result) ==
    [results |-> result, progress |-> Progress("completed", 7)]

\* lines 253-262: whatever the workflow returned is stored as a completed job
CompletedUpdates(result) ==
    [status |-> "completed", results |-> result, progress |-> Progress("completed", 7)]

\* variant: the message is recorded but the status is left as it was
FailedUpdates_NoStatus ==
    [error |-> "error", progress |-> [phase |-> "failed", message |-> "text"]]

\* variant: the failure is recorded without its message
FailedUpdates_NoError ==
    [status |-> "failed", progress |-> [phase |-> "failed", message |-> "text"]]

\* lines 268-275
FailedUpdates ==
    [status |-> "failed", error |-> "error",
     progress |-> [phase |-> "failed", message |-> "text"]]

RunnerComplete(j) ==
    /\ LoopIdle
    /\ rpc[j] = "in_executor" /\ wpc[j] = "returned"
    /\ update_job(j, CompletedUpdates(wl[j].result))
    /\ rpc' = [rpc EXCEPT ![j] = "done"]
    /\ UNCHANGED <<wpc, wl, req, resp, hist>>

RunnerFail(j) ==
    /\ LoopIdle
    /\ rpc[j] = "in_executor" /\ wpc[j] = "raised"
    /\ update_job(j, FailedUpdates)
    /\ rpc' = [rpc EXCEPT ![j] = "done"]
    /\ UNCHANGED <<wpc, wl, req, resp, hist>>

\* ------------------------------- run_agent_workflow (agent/dedup_agent.py)
Goto(j, pc) == wpc' = [wpc EXCEPT ![j] = pc]

\* update_progress (lines 49-68): one update_job that replaces progress
update_progress(j, phase, step) == update_job(j, [progress |-> Progress(phase, step)])

\* a numbered update_progress call followed by a move to the phase body
ProgressStep(j, from, phase, step, to) ==
    /\ wpc[j] = from
    /\ update_progress(j, phase, step)
    /\ Goto(j, to)
    /\ UNCHANGED <<rpc, wl, req, resp, hist>>

\* variant: the workflow starts over after an exception
Raise_Retry(j) ==
    /\ Goto(j, "p1")
    /\ hist' = [hist EXCEPT ![j].collabFailed = TRUE]

\* the except clause of lines 257-259: the exception leaves the workflow
Raise(j) ==
    /\ Goto(j, "raised")
    /\ hist' = [hist EXCEPT ![j].collabFailed = TRUE]

Phase1Progress(j) == ProgressStep(j, "p1", "phase_1_connect", 1, "connect")

\* lines 74-78: tools.connect_to_salesforce, an error status is raised
Phase1Connect(j) ==
    /\ wpc[j] = "connect"
    /\ \/ Goto(j, "p2") /\ UNCHANGED hist
       \/ Raise(j)
    /\ UNCHANGED <<jobs, rpc, wl, req, resp>>

Phase2Progress(j) == ProgressStep(j, "p2", "phase_2_extract", 2, "extract")

\* lines 83-96: tools.extract_contacts, an error status is raised
Phase2Extract(j) ==
    /\ wpc[j] = "extract"
    /\ \/ Goto(j, "p3") /\ UNCHANGED hist
       \/ Raise(j)
    /\ UNCHANGED <<jobs, rpc, wl, req, resp>>

Phase3Progress(j) == ProgressStep(j, "p3", "phase_3_validate", 3, "validate")

\* lines 101-109 and 139: email validation yields the first update payloads
Phase3Validate(j) ==
    /\ wpc[j] = "validate"
    /\ \E v \in 0..MaxValUpdates :
          wl' = [wl EXCEPT ![j].val = v, ![j].all_updates = v]
    /\ Goto(j, "p4")
    /\ UNCHANGED <<jobs, rpc, req, resp, hist>>

Phase4Progress(j) == ProgressStep(j, "p4", "phase_4_detect", 4, "detect")

\* lines 114-133: the classifier reports the duplicate pairs
Phase4Detect(j) ==
    /\ wpc[j] = "detect"
    /\ \E n \in 0..MaxPairs : wl' = [wl EXCEPT ![j].pairs = n]
    /\ Goto(j, "p5")
    /\ UNCHANGED <<jobs, rpc, req, resp, hist>>

Phase5Progress(j) == ProgressStep(j, "p5", "phase_5_mark", 5, "mark")

\* variants: auto_approve is not looked at
NeedsApproval_Always(j) == TRUE

NeedsApproval_Never(j) == FALSE

\* line 148 and line 187: the approval gate is used unless auto_approve
NeedsApproval(j) == ~jobs[j].config.auto_approve

\* line 180: all_updates.extend(marking_result['updates'])
AddMarkingUpdates(j) ==
    wl' = [wl EXCEPT ![j].all_updates = @ + UpdatesPerPair * wl[j].pairs]

\* variant: phase 6 runs whatever the number of updates
AfterMarking_Always(n) == "p6"

\* line 183: phase 6 runs only when there is something to update
AfterMarking(n) == IF n > 0 THEN "p6" ELSE "p7"

\* lines 141-148, 180: prepare the marking; without a gate the updates are added
Phase5Mark(j) ==
    /\ wpc[j] = "mark"
    /\ IF wl[j].pairs > 0
          THEN IF NeedsApproval(j)
                  THEN Goto(j, "cp1_progress") /\ UNCHANGED wl
                  ELSE /\ AddMarkingUpdates(j)
                       /\ Goto(j, AfterMarking(wl'[j].all_updates))
          ELSE Goto(j, AfterMarking(wl[j].all_updates)) /\ UNCHANGED wl
    /\ UNCHANGED <<jobs, rpc, req, resp, hist>>

\* line 149
Checkpoint1Progress(j) == ProgressStep(j, "cp1_progress", "awaiting_approval", 5, "cp1_store")

\* pending_approval of lines 159-164: the marking payload with its decisions
\* (one per pair); of lines 195-199: the final payload, without decisions
PendingDuplicateMarking(pairs) ==
    [stage |-> "duplicate_marking", total_updates |-> UpdatesPerPair * pairs,
     decisions |-> pairs]

PendingSalesforceUpdate(n) ==
    [stage |-> "salesforce_update", total_updates |-> n]

\* the dict of lines 157-165 and of lines 193-200
CheckpointUpdates(pending) ==
    [status |-> "awaiting_approval", pending_approval |-> Some(pending)]

\* a checkpoint is opened: update_job, then wait_for_approval starts
OpenCheckpoint(j, from, pending, to) ==
    /\ wpc[j] = from
    /\ update_job(j, CheckpointUpdates(pending))
    /\ Goto(j, to)
    /\ wl' = [wl EXCEPT ![j].polled = FALSE]
    /\ hist' = [hist EXCEPT ![j].cycle = @ + 1, ![j].stage = pending.stage,
                            ![j].accepted = 0]
    /\ UNCHANGED <<rpc, req, resp>>

\* lines 156-166
Checkpoint1Store(j) ==
    OpenCheckpoint(j, "cp1_store", PendingDuplicateMarking(wl[j].pairs), "cp1_wait")

\* wait_for_approval, line 284-286: a stored decision ends the wait
DecisionSeen(job) == job.approval_decision # None

\* variant: the answer of the gate is ignored
GateProceeds_Always(approved) == TRUE

\* lines 172 and 206: the workflow goes on only when the gate said yes
GateProceeds(approved) == approved

\* lines 173-177 and 207-211: return {"status": "cancelled", ...}
ReturnCancelled(j) ==
    /\ Goto(j, "returned")
    /\ wl' = [wl EXCEPT ![j].result = "cancelled"]

\* what the gate answered, and whether the decision it read was posted
\* before the checkpoint it answers was opened
ObserveGate(j, approved) ==
    hist' = [hist EXCEPT ![j].denied = @ \/ ~approved,
                         ![j].reused = @ \/ hist[j].accepted = 0]

\* one iteration of the loop of wait_for_approval (lines 280-289) that finds
\* the decision, and the branch the caller takes on the value returned
GateDecision(j, from, to) ==
    /\ wpc[j] = from
    /\ DecisionSeen(jobs[j])
    /\ LET approved == ValueOf(jobs[j].approval_decision).approved
       IN  /\ ObserveGate(j, approved)
           /\ IF GateProceeds(approved)
                 THEN /\ Goto(j, to)
                      /\ IF from = "cp1_wait"
                            THEN AddMarkingUpdates(j)
                            ELSE UNCHANGED wl
                 ELSE ReturnCancelled(j)
    /\ UNCHANGED <<jobs, rpc, req, resp>>

\* one iteration that finds no decision: time.sleep(2) and poll again
GateSleep(j, from) ==
    /\ wpc[j] = from
    /\ ~DecisionSeen(jobs[j])
    /\ ~wl[j].polled
    /\ wl' = [wl EXCEPT ![j].polled = TRUE]
    /\ UNCHANGED <<jobs, rpc, wpc, req, resp, hist>>

\* lines 280 and 291-292: the loop condition fails after a sleep, the gate
\* answers False and the caller returns the cancelled result
GateTimeout(j, from) ==
    /\ wpc[j] = from
    /\ wl[j].polled
    /\ ReturnCancelled(j)
    /\ hist' = [hist EXCEPT ![j].denied = TRUE, ![j].timedOut = TRUE]
    /\ UNCHANGED <<jobs, rpc, req, resp>>

Checkpoint1Decision(j) == GateDecision(j, "cp1_wait", "p6")
Checkpoint1Sleep(j) == GateSleep(j, "cp1_wait")
Checkpoint1Timeout(j) == GateTimeout(j, "cp1_wait")

\* line 184, then line 187
Phase6Progress(j) ==
    ProgressStep(j, "p6", "phase_6_update", 6,
                 IF NeedsApproval(j) THEN "cp2_store" ELSE "update")

\* lines 192-201
Checkpoint2Store(j) ==
    OpenCheckpoint(j, "cp2_store", PendingSalesforceUpdate(wl[j].all_updates), "cp2_wait")

Checkpoint2Decision(j) == GateDecision(j, "cp2_wait", "update")
Checkpoint2Sleep(j) == GateSleep(j, "cp2_wait")
Checkpoint2Timeout(j) == GateTimeout(j, "cp2_wait")

\* langsmith_wrapper.py 565-571: the result built when the sink raised for a
\* batch; it has no "errors" key
SinkErrorResult(n, success_count) ==
    [status |-> "error", success_count |-> success_count,
     error_count |-> n - success_count, errors |-> None]

\* variant: the missing key goes unnoticed
MetricsRaises_Never(result) == FALSE

\* lines 221-222: update_result["errors"] is read when error_count > 0 and
\* raises KeyError when the key is missing
MetricsRaises(result) == result.error_count > 0 /\ result.errors = None

\* lines 214-222: tools.update_salesforce_contacts.  ok of the requests
\* succeed; or the sink raises for the batch, traced_salesforce_update
\* catches that and hands back its error result
Phase6Update(j) ==
    /\ wpc[j] = "update"
    /\ \/ \E ok \in 0..wl[j].all_updates :
             /\ wl' = [wl EXCEPT ![j].sfdc_updates = ok, ![j].errors = wl[j].all_updates - ok]
             /\ Goto(j, "p7")
             /\ hist' = [hist EXCEPT ![j].sinkCalls = 1]
       \/ LET result == SinkErrorResult(wl[j].all_updates, 0)
          IN  /\ wl' = [wl EXCEPT ![j].sfdc_updates = result.success_count]
              /\ IF MetricsRaises(result)
                    THEN /\ Goto(j, "raised")
                         /\ hist' = [hist EXCEPT ![j].sinkCalls = 1, ![j].sinkRaised = TRUE,
                                                 ![j].collabFailed = TRUE]
                    ELSE /\ Goto(j, "p7")
                         /\ hist' = [hist EXCEPT ![j].sinkCalls = 1, ![j].sinkRaised = TRUE]
    /\ UNCHANGED <<jobs, rpc, req, resp>>

Phase7Progress(j) == ProgressStep(j, "p7", "phase_7_reports", 7, "reports")

\* lines 227-255: reports are written and the success result is returned
Phase7Reports(j) ==
    /\ wpc[j] = "reports"
    /\ \/ /\ Goto(j, "returned")
          /\ wl' = [wl EXCEPT ![j].result = "success"]
          /\ UNCHANGED hist
       \/ Raise(j) /\ UNCHANGED wl
    /\ UNCHANGED <<jobs, rpc, req, resp>>

\* --------------------------------------- get_pending_approval (main.py)
\* line 464: approval_data.get("decisions") is missing or empty
HasDecisions(pending) == "decisions" \in DOMAIN pending /\ pending.decisions > 0

NotFound == [code |-> 404, stage |-> "None", total_updates |-> 0]

\* lines 455-559: the answer of GET /api/dedup/pending/{job_id}
get_pending_approval(j) ==
    IF j \notin DOMAIN jobs
       THEN NotFound
       ELSE LET job == jobs[j]
                data == job.pending_approval
            IN  IF data = None \/ ~HasDecisions(ValueOf(data))
                   THEN \* lines 465-537: pairs rebuilt from phase_details, else 404
                        IF "phase_4_detect" \in DOMAIN job.phase_details
                           THEN [code |-> 200, stage |-> "duplicate_review",
                                 total_updates |-> job.phase_details["phase_4_detect"]]
                           ELSE NotFound
                   ELSE [code |-> 200, stage |-> ValueOf(data).stage,
                         total_updates |-> ValueOf(data).total_updates]

\* ----------------------------------------------------------------- Next
Workflow(j) ==
    \/ Phase1Progress(j) /\ UNCHANGED aux
    \/ Phase1Connect(j) /\ UNCHANGED aux
    \/ Phase2Progress(j) /\ UNCHANGED aux
    \/ Phase2Extract(j) /\ UNCHANGED aux
    \/ Phase3Progress(j) /\ UNCHANGED aux
    \/ Phase3Validate(j) /\ UNCHANGED aux
    \/ Phase4Progress(j) /\ UNCHANGED aux
    \/ Phase4Detect(j) /\ UNCHANGED aux
    \/ Phase5Progress(j) /\ UNCHANGED aux
    \/ Phase5Mark(j) /\ UNCHANGED aux
    \/ Checkpoint1Progress(j) /\ UNCHANGED aux
    \/ Checkpoint1Store(j) /\ UNCHANGED aux
    \/ Checkpoint1Decision(j) /\ UNCHANGED aux
    \/ Checkpoint1Sleep(j) /\ UNCHANGED aux
    \/ Checkpoint1Timeout(j) /\ UNCHANGED aux
    \/ Phase6Progress(j) /\ UNCHANGED aux
    \/ Checkpoint2Store(j) /\ UNCHANGED aux
    \/ Checkpoint2Decision(j) /\ UNCHANGED aux
    \/ Checkpoint2Sleep(j) /\ UNCHANGED aux
    \/ Checkpoint2Timeout(j) /\ UNCHANGED aux
    \/ Phase6Update(j) /\ UNCHANGED aux
    \/ Phase7Progress(j) /\ UNCHANGED aux
    \/ Phase7Reports(j) /\ UNCHANGED aux

Runner(j) ==
    \/ RunnerStart(j) /\ UNCHANGED aux
    \/ RunnerComplete(j) /\ UNCHANGED aux
    \/ RunnerFail(j) /\ UNCHANGED aux

Next ==
    \/ \E j \in JobIds : start_dedup_job(j)
    \/ \E j \in JobIds, approved \in BOOLEAN : ApproveCheck(j, approved)
    \/ ApproveWrite
    \/ \E j \in JobIds : Runner(j)
    \/ \E j \in JobIds : Workflow(j)

Spec == Init /\ [][Next]_vars

\* the scheduling the code relies on: a started thread runs on, the event
\* loop resumes its coroutines, a wait ends by its timeout at the latest
FairSpec ==
    /\ Spec
    /\ \A j \in JobIds : WF_vars(Workflow(j)) /\ WF_vars(Runner(j))
    /\ WF_vars(ApproveWrite)

\* ================================================ the mutation phase
\* traced_salesforce_update (langsmith_wrapper.py 513-584) and its caller
\* (dedup_agent.py 213-222), one step per batch sent to the sink.  `mut`
\* holds the locals of the call; `outcomes` is the sink's answer for every
\* request it was given so far (TRUE = success).
MaxRequests == 11
MaxBatch == 2
ErrorLimit == 10

main == <<jobs, rpc, wpc, wl, req, resp, hist>>

Min(a, b) == IF a < b THEN a ELSE b

\* the ids of the failed requests of one batch, in the order of the batch
RECURSIVE FailedIds(_, _, _)
FailedIds(results, from, to) ==
    IF from > to
       THEN << >>
       ELSE IF results[from]
               THEN FailedIds(results, from + 1, to)
               ELSE <<from>> \o FailedIds(results, from + 1, to)

RECURSIVE Successes(_, _, _)
Successes(results, from, to) ==
    IF from > to
       THEN 0
       ELSE (IF results[from] THEN 1 ELSE 0) + Successes(results, from + 1, to)

\* the call traced_salesforce_update(sf, updates, batch_size) on n updates
NewMutation(n, batch_size) ==
    [n |-> n, batch_size |-> batch_size, i |-> 0, success_count |-> 0,
     errors |-> << >>, outcomes |-> << >>, pc |-> "loop",
     result |-> None, sfdc_updates |-> 0, metrics_errors |-> << >>]

MutInit ==
    /\ NoJobs
    /\ lk = Unused /\ bc = Unused /\ pool = Unused /\ ls = Unused
    /\ mut \in {NewMutation(n, b) : n \in 0..MaxRequests, b \in 1..MaxBatch}

\* lines 526-532: nothing to update
NoUpdates ==
    /\ mut.pc = "loop" /\ mut.n = 0
    /\ mut' = [mut EXCEPT !.pc = "returned",
                          !.result = Some([status |-> "success", success_count |-> 0,
                                           error_count |-> 0, errors |-> None])]

\* lines 546-553: the items of one batch, each counted or appended to errors
BatchErrors(results, from, to) == FailedIds(results, from, to)

\* lines 541-553: one batch is sent and every item of the answer is looked at
UpdateBatch ==
    /\ mut.pc = "loop" /\ mut.n > 0 /\ mut.i < mut.n
    /\ LET from == mut.i + 1
           to   == Min(mut.i + mut.batch_size, mut.n)
       IN  \E results \in [from..to -> BOOLEAN] :
              mut' = [mut EXCEPT
                        !.i = mut.i + mut.batch_size,
                        !.success_count = @ + Successes(results, from, to),
                        !.errors = @ \o BatchErrors(results, from, to),
                        !.outcomes = @ \o [k \in 1..(to - from + 1) |-> results[from + k - 1]]]

\* variant: every error is handed back
LimitErrors_All(errors) == errors

\* line 562: errors[:10]
LimitErrors(errors) == SubSeq(errors, 1, Min(Len(errors), ErrorLimit))

\* lines 555-563: the loop is over, the result is built
BuildResult ==
    /\ mut.pc = "loop" /\ mut.n > 0 /\ mut.i >= mut.n
    /\ mut' = [mut EXCEPT
                 !.pc = "returned",
                 !.result = Some([status |-> IF mut.errors = << >> THEN "success" ELSE "partial",
                                  success_count |-> mut.success_count,
                                  error_count |-> Len(mut.errors),
                                  errors |-> Some(LimitErrors(mut.errors))])]

\* lines 565-571: the sink raises for a batch; the result has no errors key
SinkRaises ==
    /\ mut.pc = "loop" /\ mut.n > 0 /\ mut.i < mut.n
    /\ mut' = [mut EXCEPT
                 !.pc = "returned",
                 !.result = Some(SinkErrorResult(mut.n, mut.success_count))]

\* dedup_agent.py 219-222: the counts go to metrics; update_result["errors"]
\* raises KeyError when the key is missing
RecordMetrics ==
    /\ mut.pc = "returned"
    /\ LET result == ValueOf(mut.result)
       IN  IF MetricsRaises(result)
              THEN mut' = [mut EXCEPT !.pc = "raised",
                                      !.sfdc_updates = result.success_count]
              ELSE IF result.error_count > 0
                      THEN mut' = [mut EXCEPT !.pc = "done",
                                              !.sfdc_updates = result.success_count,
                                              !.metrics_errors = ValueOf(result.errors)]
                      ELSE mut' = [mut EXCEPT !.pc = "done",
                                              !.sfdc_updates = result.success_count]

MutFrame == UNCHANGED <<main, lk, bc, pool, ls>>

MutNext ==
    \/ NoUpdates /\ MutFrame
    \/ UpdateBatch /\ MutFrame
    \/ BuildResult /\ MutFrame
    \/ SinkRaises /\ MutFrame
    \/ RecordMetrics /\ MutFrame

MutSpec == MutInit /\ [][MutNext]_vars

\* ================================================ the worker threads
\* run_agent_job hands run_agent_workflow to loop.run_in_executor(None, ...)
\* (main.py 244-250), the event loop's default ThreadPoolExecutor: a FIFO
\* work queue served by at most PoolSize threads (min(32, cpu_count + 4) in
\* the standard library), which /health (main.py 335) uses as well.  A
\* workflow keeps its thread while wait_for_approval polls and sleeps
\* (dedup_agent.py 279-292).  `pool` holds the queue and each job's place.
PoolSize == 2
PoolJobs == 1..(PoolSize + 1)
HealthProbe == 0

OnThread == {"working", "waiting", "resumed"}

Busy ==
    Cardinality({j \in PoolJobs : pool.job[j] \in OnThread})
       + (IF pool.health = "probing" THEN 1 ELSE 0)

PoolInit ==
    /\ NoJobs
    /\ lk = Unused /\ bc = Unused /\ mut = Unused /\ ls = Unused
    /\ pool = [job |-> [j \in PoolJobs |-> "absent"], queue |-> << >>,
               health |-> "idle", decided |-> {}]

\* main.py 350-366 and 215-250: the job is created, its background task
\* reaches run_in_executor and the work item is queued
SubmitJob(j) ==
    /\ pool.job[j] = "absent"
    /\ pool' = [pool EXCEPT !.job[j] = "queued", !.queue = Append(@, j)]

\* main.py 335: the health check queues its connection probe
HealthSubmit ==
    /\ pool.health = "idle"
    /\ pool' = [pool EXCEPT !.health = "queued", !.queue = Append(@, HealthProbe)]

\* main.py 244-250: a free thread takes the oldest work item
Dispatch ==
    /\ pool.queue # << >>
    /\ Busy < PoolSize
    /\ LET item == Head(pool.queue)
       IN  IF item = HealthProbe
              THEN pool' = [pool EXCEPT !.queue = Tail(@), !.health = "probing"]
              ELSE pool' = [pool EXCEPT !.queue = Tail(@), !.job[item] = "working"]

\* main.py 335-338: the probe returns and the health check is answered
HealthDone ==
    /\ pool.health = "probing"
    /\ pool' = [pool EXCEPT !.health = "idle"]

\* dedup_agent.py 148-166: the workflow opens a checkpoint and waits on its thread
WorkToWait(j) ==
    /\ pool.job[j] = "working"
    /\ pool' = [pool EXCEPT !.job[j] = "waiting"]

\* dedup_agent.py 225-255: the workflow returns (auto_approve, or nothing to approve)
WorkToEnd(j) ==
    /\ pool.job[j] \in {"working", "resumed"}
    /\ pool' = [pool EXCEPT !.job[j] = "finished"]

\* main.py 420-449: approve_decision on the event loop stores a decision
PostDecision(j) ==
    /\ pool.job[j] = "waiting"
    /\ j \notin pool.decided
    /\ pool' = [pool EXCEPT !.decided = @ \cup {j}]

\* dedup_agent.py 281-286: the poll finds the decision
WaitSeesDecision(j) ==
    /\ pool.job[j] = "waiting"
    /\ j \in pool.decided
    /\ pool' = [pool EXCEPT !.job[j] = "resumed"]

\* dedup_agent.py 279, 291-292: 3600 s without a decision
WaitTimesOut(j) ==
    /\ pool.job[j] = "waiting"
    /\ j \notin pool.decided
    /\ pool' = [pool EXCEPT !.job[j] = "finished"]

PoolFrame == UNCHANGED <<main, lk, bc, mut, ls>>

PoolNext ==
    \/ HealthSubmit /\ PoolFrame
    \/ Dispatch /\ PoolFrame
    \/ HealthDone /\ PoolFrame
    \/ \E j \in PoolJobs : SubmitJob(j) /\ PoolFrame
    \/ \E j \in PoolJobs : WorkToWait(j) /\ PoolFrame
    \/ \E j \in PoolJobs : WorkToEnd(j) /\ PoolFrame
    \/ \E j \in PoolJobs : PostDecision(j) /\ PoolFrame
    \/ \E j \in PoolJobs : WaitSeesDecision(j) /\ PoolFrame
    \/ \E j \in PoolJobs : WaitTimesOut(j) /\ PoolFrame

PoolSpec == PoolInit /\ [][PoolNext]_vars

\* ==================================================== the store lock
\* JobManager.lock is one asyncio.Lock (main.py 109) taken by `async with`
\* in get_job and update_job (main.py 148-163), from coroutines of the
\* request event loop and from update_progress, which runs update_job on a
\* new event loop of the worker thread for every call (dedup_agent.py 49-68).
\* asyncio.Lock is not thread-safe: an acquire that finds the lock free takes
\* it without suspending; one that finds it taken binds the lock to the
\* caller's loop (or raises RuntimeError when it is bound to another loop)
\* and waits for a future that release() completes from the releasing thread.
\* A future completed from a foreign thread does not wake the waiter's loop:
\* the request loop notices it on its next iteration, a worker loop inside
\* run_until_complete never does.  `lk` holds the lock and every call's place.
RequestCalls == {"status", "approve"}
WorkerCalls == {"progress1", "progress2"}
LockCalls == RequestCalls \cup WorkerCalls

\* the calls that change the record; GET /api/dedup/status only reads it
UpdateCalls == {"approve", "progress1", "progress2"}

\* dedup_agent.py 54-55: every update_progress call has a loop of its own
LoopOf(c) == IF c \in RequestCalls THEN "request" ELSE c

Ended == {"done", "raised"}

InSection == {"held", "applied"}

LockInit ==
    /\ NoJobs
    /\ bc = Unused /\ pool = Unused /\ mut = Unused /\ ls = Unused
    /\ lk = [locked |-> FALSE, bound |-> "none", waiters |-> << >>, woken |-> {},
             pc |-> [c \in LockCalls |-> "idle"], record |-> {}]

\* a coroutine of the request loop runs until it suspends, and the worker
\* thread makes its update_progress calls one after the other
MayStep(c) ==
    /\ c \in RequestCalls => \A d \in RequestCalls \ {c} : lk.pc[d] \notin InSection
    /\ c = "progress2" => lk.pc["progress1"] \in Ended

\* Lock.acquire, the lock is free and nobody waits: taken at once
Acquire(c) ==
    /\ lk.pc[c] = "idle" /\ MayStep(c)
    /\ ~lk.locked /\ lk.waiters = << >>
    /\ lk' = [lk EXCEPT !.locked = TRUE, !.pc[c] = "held"]

\* Lock.acquire, the lock is taken or somebody waits: the lock is bound to
\* the caller's loop and the caller waits, or RuntimeError
Contend(c) ==
    /\ lk.pc[c] = "idle" /\ MayStep(c)
    /\ lk.locked \/ lk.waiters # << >>
    /\ IF lk.bound \in {"none", LoopOf(c)}
          THEN lk' = [lk EXCEPT !.bound = LoopOf(c),
                                !.waiters = Append(@, c),
                                !.pc[c] = "waiting"]
          ELSE lk' = [lk EXCEPT !.pc[c] = "raised"]

\* main.py 150-155 and 162-163: the body of `async with self.lock`
Apply(c) ==
    /\ lk.pc[c] = "held"
    /\ lk' = [lk EXCEPT !.pc[c] = "applied",
                        !.record = IF c \in UpdateCalls THEN @ \cup {c} ELSE @]

\* Lock.release: the lock is freed and the future of the first waiter completed
Release(c) ==
    /\ lk.pc[c] = "applied"
    /\ lk' = [lk EXCEPT !.locked = FALSE,
                        !.woken = IF lk.waiters = << >> THEN @ ELSE @ \cup {Head(lk.waiters)},
                        !.pc[c] = "done"]

\* the first of the waiters is c, and the rest of them
WaitersWithout(c) ==
    SelectSeq(lk.waiters, LAMBDA d : d # c)

\* Lock.acquire after the wait: only a waiter of the request loop gets to run
\* again once its future was completed
Resume(c) ==
    /\ lk.pc[c] = "waiting" /\ MayStep(c)
    /\ c \in lk.woken
    /\ LoopOf(c) = "request"
    /\ lk' = [lk EXCEPT !.locked = TRUE,
                        !.waiters = WaitersWithout(c),
                        !.pc[c] = "held"]

LockFrame == UNCHANGED <<main, bc, pool, mut, ls>>

LockNext ==
    \/ \E c \in LockCalls : Acquire(c) /\ LockFrame
    \/ \E c \in LockCalls : Contend(c) /\ LockFrame
    \/ \E c \in LockCalls : Apply(c) /\ LockFrame
    \/ \E c \in LockCalls : Release(c) /\ LockFrame
    \/ \E c \in LockCalls : Resume(c) /\ LockFrame

LockSpec == LockInit /\ [][LockNext]_vars

\* ======================================================= the broadcasts
\* update_job commits under the lock and then calls broadcast_update with the
\* live record (main.py 148-158); broadcast_update copies the client list,
\* serialises the record as it is at that moment and sends to each client in
\* turn (main.py 186-206).  websocket_updates registers the socket before it
\* sends the initial state (main.py 587-600).  Two updates are in flight:
\* approve_decision's on the request loop and update_progress's on the worker
\* thread; the record is stood for by the number of commits it contains.
\* Store operations are single steps here (see the store lock above).
Publishers == {"approve", "progress"}
Subscribers == {"s1", "s2"}

IdlePublisher ==
    [pc |-> "idle", commit |-> 0, clients |-> << >>, idx |-> 1, data |-> 0, failed |-> {}]

\* create_job has stored an empty client list for the job (main.py 143)
BcInit ==
    /\ NoJobs
    /\ lk = Unused /\ pool = Unused /\ mut = Unused /\ ls = Unused
    /\ bc = [version |-> 0, has_key |-> TRUE, websocket_clients |-> << >>,
             broken |-> {},
             inbox |-> [s \in Subscribers |-> << >>],
             sub |-> [s \in Subscribers |-> "closed"],
             pub |-> [p \in Publishers |-> IdlePublisher]]

\* a coroutine of the request loop runs on until an await suspends it: the
\* other coroutines of that loop wait while one is between two such points
LoopFree(x) ==
    /\ \A s \in Subscribers \ {x} : bc.sub[s] # "added"
    /\ x # "approve" => bc.pub["approve"].pc \notin {"committed", "copied"}

Without(list, s) == SelectSeq(list, LAMBDA c : c # s)

Elements(list) == {list[k] : k \in 1..Len(list)}

\* main.py 591: websocket.accept()
Accept(s) ==
    /\ bc.sub[s] = "closed" /\ LoopFree(s)
    /\ bc' = [bc EXCEPT !.sub[s] = "accepted"]

\* main.py 592 and 170-175: add_websocket
add_websocket(s) ==
    /\ bc.sub[s] = "accepted" /\ LoopFree(s)
    /\ bc' = [bc EXCEPT !.sub[s] = "added",
                        !.has_key = TRUE,
                        !.websocket_clients = Append(@, s)]

\* main.py 594-602 and 614-618: get_job hands out the live record, which is
\* serialised and sent; a failed send ends the endpoint through its finally
SendInitialState(s) ==
    /\ bc.sub[s] = "added"
    /\ IF s \in bc.broken
          THEN bc' = [bc EXCEPT !.sub[s] = "gone",
                                !.websocket_clients = Without(@, s)]
          ELSE bc' = [bc EXCEPT !.sub[s] = "open",
                                !.inbox[s] = Append(@, [type |-> "initial_state",
                                                         commit |-> 0,
                                                         data |-> bc.version])]

\* the client's connection is lost
Disconnect(s) ==
    /\ bc.sub[s] \in {"accepted", "added", "open"}
    /\ s \notin bc.broken
    /\ bc' = [bc EXCEPT !.broken = @ \cup {s}]

\* main.py 604-618: receive_text raises WebSocketDisconnect, finally removes
EndpointCleanup(s) ==
    /\ bc.sub[s] = "open" /\ s \in bc.broken /\ LoopFree(s)
    /\ bc' = [bc EXCEPT !.sub[s] = "gone",
                        !.websocket_clients = Without(@, s)]

\* main.py 150-155: the update is committed
Commit(p) ==
    /\ bc.pub[p].pc = "idle" /\ (p = "approve" => LoopFree(p))
    /\ bc' = [bc EXCEPT !.version = @ + 1,
                        !.pub[p].pc = "committed",
                        !.pub[p].commit = bc.version + 1]

\* main.py 188-193: no client list for the job, or a copy of it
CopyClients(p) ==
    /\ bc.pub[p].pc = "committed"
    /\ IF bc.has_key
          THEN bc' = [bc EXCEPT !.pub[p].pc = "copied",
                                !.pub[p].clients = bc.websocket_clients]
          ELSE bc' = [bc EXCEPT !.pub[p].pc = "done"]

\* main.py 195-199: json.dumps of the live record
DumpMessage(p) ==
    /\ bc.pub[p].pc = "copied"
    /\ bc' = [bc EXCEPT !.pub[p].pc = "sending", !.pub[p].data = bc.version]

\* variant: the exception of a failed send leaves broadcast_update
SendFailed_Raise(publisher, s) ==
    [publisher EXCEPT !.pc = "raised", !.failed = @ \cup {s}]

\* main.py 204-206: the exception is logged and the loop goes on
SendFailed(publisher, s) ==
    [publisher EXCEPT !.idx = @ + 1, !.failed = @ \cup {s}]

\* main.py 201-206: one turn of the loop over the copied list
SendToClient(p) ==
    /\ bc.pub[p].pc = "sending" /\ (p = "approve" => LoopFree(p))
    /\ bc.pub[p].idx <= Len(bc.pub[p].clients)
    /\ LET s == bc.pub[p].clients[bc.pub[p].idx]
       IN  IF s \in bc.broken
              THEN bc' = [bc EXCEPT !.pub[p] = SendFailed(@, s),
                                    !.websocket_clients = Without(@, s)]
              ELSE bc' = [bc EXCEPT !.pub[p].idx = @ + 1,
                                    !.inbox[s] = Append(@, [type |-> "job_update",
                                                             commit |-> bc.pub[p].commit,
                                                             data |-> bc.pub[p].data])]

\* main.py 158: broadcast_update and with it update_job return
BroadcastReturn(p) ==
    /\ bc.pub[p].pc = "sending" /\ (p = "approve" => LoopFree(p))
    /\ bc.pub[p].idx > Len(bc.pub[p].clients)
    /\ bc' = [bc EXCEPT !.pub[p].pc = "done"]

BcFrame == UNCHANGED <<main, lk, pool, mut, ls>>

BcNext ==
    \/ \E s \in Subscribers : Accept(s) /\ BcFrame
    \/ \E s \in Subscribers : add_websocket(s) /\ BcFrame
    \/ \E s \in Subscribers : SendInitialState(s) /\ BcFrame
    \/ \E s \in Subscribers : Disconnect(s) /\ BcFrame
    \/ \E s \in Subscribers : EndpointCleanup(s) /\ BcFrame
    \/ \E p \in Publishers : Commit(p) /\ BcFrame
    \/ \E p \in Publishers : CopyClients(p) /\ BcFrame
    \/ \E p \in Publishers : DumpMessage(p) /\ BcFrame
    \/ \E p \in Publishers : SendToClient(p) /\ BcFrame
    \/ \E p \in Publishers : BroadcastReturn(p) /\ BcFrame

BcSpec == BcInit /\ [][BcNext]_vars

\* ============================================================ list_jobs
\* JobManager.jobs maps a job id to a dict object.  create_job stores a new
\* object (main.py 116-142), update_job changes the object in place with
\* dict.update (main.py 154), and list_jobs returns list(self.jobs.values())
\* (main.py 165-168): a new list of the same objects.  `ls` holds the objects
\* by address, the dict, the list last handed out, and what its records
\* showed when it was handed out.
ListIds == {"j1", "j2"}
Addresses == 1..Cardinality(ListIds)
ListStatuses == {"running", "awaiting_approval", "completed"}

ListInit ==
    /\ NoJobs
    /\ lk = Unused /\ bc = Unused /\ pool = Unused /\ mut = Unused
    /\ ls = [heap |-> [a \in Addresses |-> [status |-> "free"]],
             order |-> << >>,
             address |-> [id \in ListIds |-> 0],
             returned |-> None,
             taken |-> << >>]

\* main.py 116-142: a new record object enters the dict
ListCreateJob(id) ==
    /\ ls.address[id] = 0
    /\ LET a == Len(ls.order) + 1
       IN  ls' = [ls EXCEPT !.heap[a] = [status |-> "pending"],
                            !.order = Append(@, id),
                            !.address[id] = a]

\* main.py 148-155: dict.update on the object the dict holds
ListUpdateJob(id, status) ==
    /\ ls.address[id] # 0
    /\ ls' = [ls EXCEPT !.heap[ls.address[id]] = MergeUpdates(@, [status |-> status])]

\* main.py 165-168: list(self.jobs.values())
list_jobs ==
    ls' = [ls EXCEPT
             !.returned = Some([k \in 1..Len(ls.order) |-> ls.address[ls.order[k]]]),
             !.taken = [k \in 1..Len(ls.order) |-> ls.heap[ls.address[ls.order[k]]]]]

ListFrame == UNCHANGED <<main, lk, bc, pool, mut>>

ListNext ==
    \/ \E id \in ListIds : ListCreateJob(id) /\ ListFrame
    \/ \E id \in ListIds, status \in ListStatuses : ListUpdateJob(id, status) /\ ListFrame
    \/ list_jobs /\ ListFrame

ListSpec == ListInit /\ [][ListNext]_vars

\* ============================================================== claims
StatusOf(j) == IF j \in DOMAIN jobs THEN jobs[j].status ELSE "absent"

Gated(j) == j \in DOMAIN jobs /\ ~jobs[j].config.auto_approve

Edges ==
    {<<"pending", "running">>, <<"running", "awaiting_approval">>,
     <<"awaiting_approval", "running">>}
    \cup ({"running", "awaiting_approval"} \X Terminal)

C3_PendingIffAwaiting ==
    \A j \in DOMAIN jobs :
        (jobs[j].pending_approval # None) <=> (StatusOf(j) = "awaiting_approval")

C5_RejectedEndsCancelled ==
    \A j \in DOMAIN jobs :
        (hist[j].rejectPosted /\ rpc[j] = "done") => StatusOf(j) = "cancelled"

\* C6: when a wait for approval timed out, the status the job ends with is
\* cancelled.
C6_TimeoutEndsCancelled ==
    \A j \in DOMAIN jobs :
        (hist[j].timedOut /\ rpc[j] = "done") => StatusOf(j) = "cancelled"

\* C7: a checkpoint is passed only on a decision posted while that
\* checkpoint was pending: the mutation phase is not entered on a decision
\* that was posted for an earlier checkpoint.
C7_FreshDecisionPerCheckpoint ==
    \A j \in JobIds : wpc[j] = "update" => ~hist[j].reused

\* C8: an approve_decision request for a job that is unknown or not
\* awaiting_approval is answered 404 or 400 and changes no JobRecord.
C8_RejectedRequestNoChange ==
    [][\A j \in JobIds :
          (resp' # resp /\ resp'.job = j
             /\ (j \notin DOMAIN jobs \/ jobs[j].status # "awaiting_approval"))
          => /\ resp'.code = (IF j \in DOMAIN jobs THEN 400 ELSE 404)
             /\ jobs' = jobs]_vars

\* a request was refused with 400 while the job was running, before any
\* checkpoint, and no decision was stored
C8_Witness ==
    /\ resp.code = 400
    /\ resp.job \in DOMAIN jobs
    /\ StatusOf(resp.job) = "running"
    /\ hist[resp.job].cycle = 0
    /\ jobs[resp.job].approval_decision = None

C15_ExceptionBecomesFailed ==
    \A j \in DOMAIN jobs :
        (wpc[j] = "raised" /\ rpc[j] = "done")
           => /\ jobs[j].status = "failed"
              /\ jobs[j].error # "None"
              /\ jobs[j].results = "None"

\* the mutation sink failed as a whole after both checkpoints were passed,
\* and the runner has handled the exception
C15_Witness ==
    \E j \in DOMAIN jobs :
        /\ wpc[j] = "raised" /\ rpc[j] = "done"
        /\ hist[j].sinkCalls = 1 /\ hist[j].cycle = 2

C18_RecordHoldsMetrics ==
    \A j \in DOMAIN jobs :
        (jobs[j].status = "completed" /\ wl[j].result = "success")
           => /\ jobs[j].metrics.duplicates_found = wl[j].pairs
              /\ jobs[j].metrics.sfdc_updates = wl[j].sfdc_updates

\* C20: the pending-approval query answers 200 with the stage of the open
\* checkpoint exactly while the job is awaiting_approval, and 404 otherwise.
C20_PendingQueryMatchesCheckpoint ==
    \A j \in DOMAIN jobs :
        IF jobs[j].status = "awaiting_approval"
           THEN /\ get_pending_approval(j).code = 200
                /\ get_pending_approval(j).stage = hist[j].stage
           ELSE get_pending_approval(j).code = 404

\* the number of requests the sink answered with a failure
Failures == Cardinality({k \in 1..Len(mut.outcomes) : ~mut.outcomes[k]})

\* the ids of all failed requests, in request order
AllFailedIds == FailedIds(mut.outcomes, 1, Len(mut.outcomes))

\* C16 (as stated): when the mutation phase is over without the sink
\* raising, sfdc_updates is N-M and metrics.errors holds exactly M errors.
C16_ExactlyMErrors ==
    mut.pc = "done"
       => /\ mut.sfdc_updates = mut.n - Failures
          /\ Len(mut.metrics_errors) = Failures

\* C16 (amended): when no batch raises, every one of the N requests is sent
\* to the sink, the phase does not raise, sfdc_updates is N-M, and
\* metrics.errors holds the first min(M, 10) failed requests in request order.
C16_ErrorsUpToLimit ==
    /\ mut.pc = "raised" => ValueOf(mut.result).status = "error"
    /\ mut.pc = "done"
          => /\ Len(mut.outcomes) = mut.n
             /\ mut.sfdc_updates = mut.n - Failures
             /\ mut.metrics_errors = SubSeq(AllFailedIds, 1, Min(Failures, ErrorLimit))

\* all eleven of eleven requests failed, one more than the limit, and the
\* phase is over with ten errors in metrics.errors
C16_Witness ==
    /\ mut.pc = "done"
    /\ Failures > ErrorLimit
    /\ Len(mut.metrics_errors) = ErrorLimit

\* every thread of the executor is held by a job inside wait_for_approval
AllThreadsWaiting ==
    Cardinality({j \in PoolJobs : pool.job[j] = "waiting"}) = PoolSize

\* C19: whatever the number of jobs waiting for approval, a submitted job
\* or a health probe that has not started yet is never held back by them:
\* the waiting jobs never occupy every thread while work is queued.
C19_WaitersNeverBlock ==
    pool.queue # << >> => ~AllThreadsWaiting

\* C11: no update is lost: every update_job call that is over, whether it
\* came from the request loop or from the worker thread, has its change in
\* the record.
C11_NoLostUpdate ==
    \A c \in UpdateCalls : lk.pc[c] \in Ended => c \in lk.record

\* the job_update messages a subscriber has received, in order of arrival
Updates(s) == SelectSeq(bc.inbox[s], LAMBDA m : m.type = "job_update")

\* subscriber s has received exactly one broadcast of publisher p's update
Received(s, p) ==
    Cardinality({k \in 1..Len(Updates(s)) : Updates(s)[k].commit = bc.pub[p].commit}) = 1

\* C12: every subscriber receives the broadcasts in the order in which the
\* updates were committed, each carrying the record as it was at its commit,
\* and one for every update whose broadcast reached it.
C12_BroadcastsInCommitOrder ==
    \A s \in Subscribers :
        /\ \A k \in 1..Len(Updates(s)) : Updates(s)[k].data = Updates(s)[k].commit
        /\ \A k, l \in 1..Len(Updates(s)) :
              k < l => Updates(s)[k].commit < Updates(s)[l].commit
        /\ \A p \in Publishers :
              (bc.pub[p].pc = "done" /\ s \in Elements(bc.pub[p].clients) \ bc.pub[p].failed)
                 => Received(s, p)

\* C13: the first message of a subscriber is the initial snapshot, and every
\* later message is an update committed after the state that snapshot showed.
C13_InitialSnapshotFirst ==
    \A s \in Subscribers :
        bc.inbox[s] # << >>
           => /\ bc.inbox[s][1].type = "initial_state"
              /\ \A k \in 2..Len(bc.inbox[s]) :
                    bc.inbox[s][k].commit > bc.inbox[s][1].data

C21_ResultsOnlyOnSuccess ==
    \A j \in DOMAIN jobs :
        /\ jobs[j].results # "None"
              => jobs[j].status = "completed" /\ jobs[j].results = "success"
        /\ jobs[j].error # "None" => jobs[j].status = "failed"

\* the records of the list handed out, as its holder reads them now
ListContents ==
    [k \in 1..Len(ValueOf(ls.returned)) |-> ls.heap[ValueOf(ls.returned)[k]]]

\* C22: the records of a list returned by list_jobs keep the contents they
\* had when the list was returned, whatever is committed afterwards.
C22_ListIsSnapshot ==
    ls.returned # None => ListContents = ls.taken

\* C23: once the mutation sink has raised for the batch, no later phase is
\* started, the job is never completed, and run_agent_job ends it as failed.
C23_SinkFailureFailsJob ==
    \A j \in DOMAIN jobs :
        hist[j].sinkRaised
           => /\ wpc[j] = "raised"
              /\ jobs[j].status # "completed"
              /\ jobs[j].results = "None"
              /\ rpc[j] = "done" => jobs[j].status = "failed"

\* the sink raised and run_agent_job has stored the failure
C23_Witness ==
    \E j \in DOMAIN jobs :
        hist[j].sinkRaised /\ rpc[j] = "done" /\ jobs[j].status = "failed"

\* the places of run_agent_workflow in the order of the program text
PhaseOrder ==
    <<"idle", "p1", "connect", "p2", "extract", "p3", "validate", "p4", "detect",
      "p5", "mark", "cp1_progress", "cp1_store", "cp1_wait", "p6", "cp2_store",
      "cp2_wait", "update", "p7", "reports">>

Rank(pc) ==
    IF \E k \in 1..Len(PhaseOrder) : PhaseOrder[k] = pc
       THEN CHOOSE k \in 1..Len(PhaseOrder) : PhaseOrder[k] = pc
       ELSE Len(PhaseOrder) + 1

\* C24: the workflow only moves forward through its phases, so no phase runs
\* twice; after it has returned or raised it moves no more, and after a
\* raise none of its counts changes any more.
C24_PhasesInOrderOnce ==
    [][\A j \in JobIds :
          /\ wpc'[j] # wpc[j]
                => /\ wpc[j] \notin {"returned", "raised"}
                   /\ Rank(wpc'[j]) > Rank(wpc[j])
          /\ wpc[j] = "raised" => wl'[j] = wl[j] /\ hist'[j].sinkCalls = hist[j].sinkCalls]_vars

\* extraction failed: nothing was validated, detected or updated, and the
\* job was ended as failed
C24_Witness ==
    \E j \in DOMAIN jobs :
        /\ wpc[j] = "raised" /\ rpc[j] = "done"
        /\ jobs[j].progress.phase = "failed"
        /\ hist[j].sinkCalls = 0 /\ hist[j].cycle = 0
        /\ wl[j] = NewLocals

\* C25: when the marking was approved with some pairs rejected, the updates
\* sent to the mutation sink are the validation updates and the marking
\* updates of the pairs that were not rejected.
C25_RejectedPairsNotApplied ==
    \A j \in DOMAIN jobs :
        (hist[j].sinkCalls = 1 /\ hist[j].rejected > 0)
           => wl[j].all_updates
                 = wl[j].val + UpdatesPerPair * (wl[j].pairs - Min(hist[j].rejected, wl[j].pairs))

\* C26: the progress of every job always has the four fields phase,
\* current_step, total_steps and message, with current_step between 0 and
\* total_steps.
C26_ProgressComplete ==
    \A j \in DOMAIN jobs :
        /\ DOMAIN jobs[j].progress = {"phase", "current_step", "total_steps", "message"}
        /\ jobs[j].progress.current_step \in 0..jobs[j].progress.total_steps

\* C27: for a job without auto_approve the mutation sink is called only
\* after approve_decision has stored a decision with approved=true.
C27_MutationNeedsStoredApproval ==
    \A j \in DOMAIN jobs :
        (~jobs[j].config.auto_approve /\ hist[j].sinkCalls = 1)
           => hist[j].approvePosted

\* a job without auto_approve went through both checkpoints with stored
\* approvals and the sink was called
C27_Witness ==
    \E j \in DOMAIN jobs :
        /\ ~jobs[j].config.auto_approve
        /\ hist[j].sinkCalls = 1 /\ hist[j].cycle = 2
        /\ hist[j].approvePosted /\ ~hist[j].rejectPosted

\* C28: a checkpoint for which approve_decision has acknowledged a request
\* with approved=true is never treated as timed out by the runner.
C28_AcknowledgedApprovalHonoured ==
    \A j \in DOMAIN jobs :
        (/\ hist[j].accepted > 0
         /\ DecisionSeen(jobs[j])
         /\ ValueOf(jobs[j].approval_decision).approved)
           => ~hist[j].timedOut

====
